---- MODULE Spec2Model ----
(***************************************************************************)
(* A model of prefect-init's command line module, src/cli/__init__.py:     *)
(* the modified_environ context manager, the ChangeDirectory context       *)
(* manager, copy_template_files and the init command.                      *)
(*                                                                         *)
(* Three specifications share the variables:                               *)
(*   SpecEnv  a with modified_environ(remove, update) block, for every     *)
(*            environment, update map and removal tuple within the bounds; *)
(*   SpecDir  a with ChangeDirectory(new_path) block, for every starting   *)
(*            directory and target;                                        *)
(*   Spec     the init command, with the external tool's exit status and   *)
(*            what it leaves on disk chosen nondeterministically.          *)
(***************************************************************************)
EXTENDS Integers, Sequences, FiniteSets, TLC

VARIABLES
  pc,             \* position of the program
  env,            \* os.environ: a dict, here a function on the names present
  cwd,            \* the process working directory, a path
  dirs,           \* the directories that exist and can be entered
  result,         \* how the block or command ended ("none" while running)
  env_at_call,    \* os.environ when the program started (history)
  cwd_at_call,    \* the working directory when the program started (history)
  update,         \* modified_environ: **update
  remove,         \* modified_environ: *remove, a tuple
  update_after,   \* modified_environ: values to restore on exit
  remove_after,   \* modified_environ: names to remove on exit
  env_in_scope,   \* os.environ at the yield (history)
  body_ops,       \* how many times the with-body touched os.environ
  body_deleted,   \* the names the with-body deleted from os.environ (history)
  new_path,       \* ChangeDirectory.new_path
  previous_path,  \* ChangeDirectory.previous_path
  cwd_in_scope,   \* the working directory when the with-body started (history)
  body_ran,       \* whether the with-body of ChangeDirectory started (history)
  exit_ran,       \* whether ChangeDirectory.__exit__ ran (history)
  disk,           \* what each directory holds: the manifest and the source tree
  pyproject,      \* init: the document in memory
  loaded,         \* init: the document as toml.load returned it (history)
  scaffolded,     \* init: what the scaffold left in the project directory (history)
  pending,        \* init: the exception in flight ("none" when there is none)
  printed,        \* init: whether the success line was printed
  calls,          \* init: the steps started so far, each with os.environ and cwd
  destination,    \* copy_template_files: destination
  dest_before     \* what was at the destination at the call (history)

vars == <<pc, env, cwd, dirs, result, env_at_call, cwd_at_call, update, remove,
          update_after, remove_after, env_in_scope, body_ops, body_deleted,
          new_path,
          previous_path, cwd_in_scope, body_ran, exit_ran, disk, pyproject,
          loaded, scaffolded, pending, printed, calls, destination,
          dest_before>>

envLocals == <<update, remove, update_after, remove_after, env_in_scope, body_ops,
               body_deleted>>
dirLocals == <<new_path, previous_path, cwd_in_scope, body_ran, exit_ran>>
initLocals == <<disk, pyproject, loaded, scaffolded, pending, printed, calls>>
copyLocals == <<destination, dest_before>>

----------------------------------------------------------------------------
(* Bounds *)

\* longest *remove tuple of the modified_environ block
MaxRemove == 2
\* most statements of the with-body that touch os.environ
MaxBodyOps == 1

----------------------------------------------------------------------------
(* Python dicts: a dict is a function whose domain is the keys present *)

EmptyDict == [k \in {} |-> ""]

Dicts(K, V) == UNION {[D -> V] : D \in SUBSET K}

\* dict.update(m)
DictUpdate(d, m) ==
  [k \in DOMAIN d \cup DOMAIN m |-> IF k \in DOMAIN m THEN m[k] ELSE d[k]]

\* d[k] = v
DictSet(d, k, v) == [x \in DOMAIN d \cup {k} |-> IF x = k THEN v ELSE d[x]]

\* PopRaises, had a pop without a default been written
PopRaisesNoDefault(d, k, has_default) == k \notin DOMAIN d

\* whether d.pop(k) or d.pop(k, default) raises KeyError: only without a
\* default, and when k is absent
PopRaises(d, k, has_default) == ~has_default /\ k \notin DOMAIN d

\* dict.pop(k, None): no error when k is absent
DictPop(d, k) == [x \in DOMAIN d \ {k} |-> d[x]]

\* d.pop(k, None) for each k of the tuple ks
RECURSIVE PopEach(_, _)
PopEach(d, ks) ==
  IF ks = <<>> THEN d ELSE PopEach(DictPop(d, Head(ks)), Tail(ks))

\* d.pop(k, None) for each k of the frozenset ks
PopAll(d, ks) == [x \in DOMAIN d \ ks |-> d[x]]

Range(s) == {s[i] : i \in DOMAIN s}

SeqsUpTo(A, n) == UNION {[1..m -> A] : m \in 0..n}

----------------------------------------------------------------------------
(* modified_environ *)

EnvNames == {"UV_VENV_SEED", "PATH"}
EnvValues == {"True", "0"}
Environs == Dicts(EnvNames, EnvValues)

\* Stomped, had it left out the names of remove
StompedUpdateKeysOnly(e, upd, rem) == DOMAIN upd \cap DOMAIN e

\* stomped = (set(update.keys()) | set(remove)) & set(env.keys())
Stomped(e, upd, rem) == (DOMAIN upd \cup Range(rem)) \cap DOMAIN e

\* update_after = {k: env[k] for k in stomped}
UpdateAfter(e, upd, rem) == [k \in Stomped(e, upd, rem) |-> e[k]]

\* remove_after = frozenset(k for k in update if k not in env)
RemoveAfter(e, upd) == {k \in DOMAIN upd : k \notin DOMAIN e}

\* EnterEnviron, had the names of remove been popped before the update
EnterEnvironRemoveFirst(e, upd, rem) == DictUpdate(PopEach(e, rem), upd)

\* env.update(update); [env.pop(k, None) for k in remove]
EnterEnviron(e, upd, rem) == PopEach(DictUpdate(e, upd), rem)

\* whether the finally clause raises: env.update never does, pop(k, None) is
\* called with a default
ExitRaises(e, upd_after, rem_after) ==
  \E k \in rem_after : PopRaises(DictUpdate(e, upd_after), k, TRUE)

\* ExitEnviron, had the finally clause stopped after env.update(update_after)
ExitEnvironNoPop(e, upd_after, rem_after) == DictUpdate(e, upd_after)

\* env.update(update_after); [env.pop(k, None) for k in remove_after]
ExitEnviron(e, upd_after, rem_after) == PopAll(DictUpdate(e, upd_after), rem_after)

----------------------------------------------------------------------------
(* ChangeDirectory *)

\* pathlib: a path is the tuple of its parts; path / name appends a part
Join(p, name) == Append(p, name)

AllDirs == {<<"home">>, <<"home", "demo">>, <<"tmp">>, <<"tmp", "demo">>}

\* os.chdir(p) succeeds exactly when p exists and can be entered
CanChdir(p) == p \in dirs

----------------------------------------------------------------------------
(* The project manifest, pyproject.toml *)

\* init's argument
ProjectName == "demo"

\* lines 111-114: the table assigned to pyproject["tool"]["prefect"]
PrefectSettings ==
  [home |-> "./.prefect", profiles_path |-> "./.prefect/profiles.toml"]

\* a tool.prefect table an earlier run or a user left, with another key
StalePrefect == [home |-> "/old", api_url |-> "http://old"]
OtherTool == [line_length |-> "88"]

ProjectTable == [name |-> ProjectName]

\* the tool tables a manifest may hold when the patch step reads it
ToolTables ==
  { EmptyDict,
    [other |-> OtherTool],
    [prefect |-> StalePrefect],
    [prefect |-> PrefectSettings],
    [other |-> OtherTool, prefect |-> StalePrefect] }

\* documents: a dict of top-level tables
ManifestDocs ==
  {[project |-> ProjectTable]}
    \cup {[project |-> ProjectTable, tool |-> t] : t \in ToolTables}

\* a file that does not exist
NoFile == [kind |-> "absent", doc |-> EmptyDict, fmt |-> "none"]
\* a file that is not TOML
GarbageFile == [kind |-> "garbage", doc |-> EmptyDict, fmt |-> "none"]
\* a TOML file as a tool or a person wrote it: comments and layout of its own
WrittenFile(d) == [kind |-> "toml", doc |-> d, fmt |-> "written"]
\* open(path, "w"): the file exists and is empty
TruncatedFile == [kind |-> "toml", doc |-> EmptyDict, fmt |-> "empty"]

\* toml.dump(doc, f): the document in the library's own layout, without the
\* comments and layout of the file it was loaded from
TomlDump(d) == [kind |-> "toml", doc |-> d, fmt |-> "dumped"]

\* toml.load(f) of a TOML file: its document
TomlLoad(file) == file.doc

\* PatchTool, had it updated the tables in place: setdefault("tool", {}),
\* setdefault("prefect", {}), update({...})
PatchToolMerging(d) ==
  LET tool == IF "tool" \in DOMAIN d THEN d["tool"] ELSE EmptyDict
      old == IF "prefect" \in DOMAIN tool THEN tool["prefect"] ELSE EmptyDict
  IN DictSet(d, "tool", DictSet(tool, "prefect", DictUpdate(old, PrefectSettings)))

\* lines 110-114: pyproject["tool"] = {}; pyproject["tool"]["prefect"] = {...}
PatchTool(d) ==
  DictSet(d, "tool", DictSet(EmptyDict, "prefect", PrefectSettings))

\* what a successful "uv add prefect" does to the manifest: project.dependencies
AddDependency(file) ==
  IF file.kind = "toml" /\ "project" \in DOMAIN file.doc
    THEN [file EXCEPT !.doc =
            DictSet(@, "project", DictSet(@["project"], "dependencies", "prefect"))]
    ELSE file

----------------------------------------------------------------------------
(* The template tree and copy_template_files *)

\* src/_templates/default: its directories and files, as paths below the root
TemplateDirs == {<<"src">>, <<"src", "tasks">>, <<"src", "flows">>}
TemplateFiles ==
  {<<"src", "tasks", "hello.py">>, <<"src", "flows", "hello_world.py">>}

Last(p) == p[Len(p)]

\* where shutil.copy2(src, dst) writes when dst is a directory: dst/basename(src)
InsideDir(p) == Append(p, Last(p))

\* what the scaffold makes for a library project: src/<name>/__init__.py
PackageDir == <<"src", ProjectName>>
PackageInit == <<"src", ProjectName, "__init__.py">>

TreePaths ==
  TemplateDirs \cup TemplateFiles \cup {InsideDir(p) : p \in TemplateFiles}
    \cup {PackageDir, PackageInit}

\* an entry of a tree: "absent", "dir", or a file named by where its content
\* comes from
IsFile(e) == e \notin {"absent", "dir"}

EmptyTree == [p \in TreePaths |-> "absent"]

ProperPrefixes(p) == {SubSeq(p, 1, i) : i \in 1..(Len(p) - 1)}

\* copytree reaches a template path when os.makedirs succeeded on every
\* directory above it: makedirs(exist_ok=True) fails on an existing file
Reached(t, p) == \A a \in ProperPrefixes(p) : ~IsFile(t[a])

\* CopyErrors, had copytree been called without dirs_exist_ok=True
CopyErrorsNoExistOk(t) == {p \in TemplateDirs : Reached(t, p) /\ t[p] # "absent"}

\* shutil.copytree collects the errors of its entries and goes on; it raises
\* shutil.Error at the end when there is one
CopyErrors(t) == {p \in TemplateDirs : Reached(t, p) /\ IsFile(t[p])}

\* CopyTree, had the destination been emptied before the copy
CopyTreeReplacing(t) ==
  [p \in TreePaths |->
     IF p \in TemplateDirs THEN "dir"
     ELSE IF p \in TemplateFiles THEN "template"
     ELSE "absent"]

\* shutil.copytree(source, destination, dirs_exist_ok=True) on the tree t of
\* the destination
CopyTree(t) ==
  [p \in TreePaths |->
     IF p \in TemplateDirs /\ Reached(t, p) /\ ~IsFile(t[p]) THEN "dir"
     ELSE IF p \in TemplateFiles /\ Reached(t, p) /\ t[p] # "dir" THEN "template"
     ELSE IF \E q \in TemplateFiles :
               p = InsideDir(q) /\ Reached(t, q) /\ t[q] = "dir" THEN "template"
     ELSE t[p]]

\* what a directory holds
NoContent == [manifest |-> NoFile, tree |-> EmptyTree]

Tree(m) == [p \in TreePaths |-> IF p \in DOMAIN m THEN m[p] ELSE "absent"]

\* the library package the scaffold writes
PackageTree ==
  <<"src">> :> "dir" @@ PackageDir :> "dir" @@ PackageInit :> "scaffold"

\* the trees the project directory may hold after the scaffold: the package
\* alone, or the package beside what the directory held before
ScaffoldTrees ==
  { Tree(PackageTree),
    Tree(PackageTree @@ <<"src", "tasks">> :> "dir" @@ <<"src", "flows">> :> "dir"),
    Tree(PackageTree @@ <<"src", "tasks">> :> "dir"
           @@ <<"src", "tasks", "hello.py">> :> "other"),
    Tree(PackageTree @@ <<"src", "tasks">> :> "other"),
    Tree(PackageTree @@ <<"src", "tasks">> :> "dir"
           @@ <<"src", "tasks", "hello.py">> :> "dir") }

ScaffoldManifests ==
  {NoFile, GarbageFile} \cup {WrittenFile(d) : d \in ManifestDocs}

\* the variables of the copy_template_files block in the specifications that
\* do not run it
CopyLocalsUnused ==
  /\ destination = <<"home">>
  /\ dest_before = [kind |-> "dir", tree |-> EmptyTree]

\* the variables of init in the specifications that do not run it
InitLocalsUnused ==
  /\ disk = [d \in AllDirs |-> NoContent]
  /\ pyproject = EmptyDict
  /\ loaded = EmptyDict
  /\ scaffolded = NoContent
  /\ pending = "none"
  /\ printed = FALSE
  /\ calls = <<>>

----------------------------------------------------------------------------
(* SpecEnv: with modified_environ(remove, update): body *)

InitEnv ==
  /\ pc = "me_call"
  /\ env \in Environs
  /\ env_at_call = env
  /\ update \in Environs
  /\ remove \in SeqsUpTo(EnvNames, MaxRemove)
  /\ update_after = EmptyDict
  /\ remove_after = {}
  /\ env_in_scope = EmptyDict
  /\ body_ops = 0
  /\ body_deleted = {}
  /\ CopyLocalsUnused
  /\ result = "none"
  /\ cwd = <<"home">>
  /\ cwd_at_call = <<"home">>
  /\ dirs = {<<"home">>}
  /\ new_path = <<"home">>
  /\ previous_path = <<"home">>
  /\ cwd_in_scope = <<"home">>
  /\ body_ran = FALSE
  /\ exit_ran = FALSE
  /\ InitLocalsUnused

\* lines 23-37: the generator runs to its yield
ME_Enter ==
  /\ pc = "me_call"
  /\ update_after' = UpdateAfter(env, update, remove)
  /\ remove_after' = RemoveAfter(env, update)
  /\ env' = EnterEnviron(env, update, remove)
  /\ env_in_scope' = env'
  /\ pc' = "me_body"
  /\ UNCHANGED <<cwd, dirs, result, env_at_call, cwd_at_call, update, remove,
                 body_ops, body_deleted>>
  /\ UNCHANGED dirLocals
  /\ UNCHANGED initLocals
  /\ UNCHANGED copyLocals

\* the with-body deletes a name: del os.environ[k]
ME_BodyDelete ==
  /\ pc = "me_body"
  /\ body_ops < MaxBodyOps
  /\ \E k \in DOMAIN env :
       /\ env' = DictPop(env, k)
       /\ body_deleted' = body_deleted \cup {k}
  /\ body_ops' = body_ops + 1
  /\ UNCHANGED <<pc, cwd, dirs, result, env_at_call, cwd_at_call, update, remove,
                 update_after, remove_after, env_in_scope>>
  /\ UNCHANGED dirLocals
  /\ UNCHANGED initLocals
  /\ UNCHANGED copyLocals

\* the with-body sets a name: os.environ[k] = v
ME_BodySet ==
  /\ pc = "me_body"
  /\ body_ops < MaxBodyOps
  /\ \E k \in EnvNames, v \in EnvValues : env' = DictSet(env, k, v)
  /\ body_ops' = body_ops + 1
  /\ UNCHANGED <<pc, cwd, dirs, result, env_at_call, cwd_at_call, update, remove,
                 update_after, remove_after, env_in_scope, body_deleted>>
  /\ UNCHANGED dirLocals
  /\ UNCHANGED initLocals
  /\ UNCHANGED copyLocals

\* the with-body ends: it returns, or raises and the exception is thrown into
\* the generator at the yield; either way the finally clause is next
ME_BodyEnd ==
  /\ pc = "me_body"
  /\ \E how \in {"returned", "raised"} : result' = how
  /\ pc' = "me_finally"
  /\ UNCHANGED <<env, cwd, dirs, env_at_call, cwd_at_call>>
  /\ UNCHANGED envLocals
  /\ UNCHANGED dirLocals
  /\ UNCHANGED initLocals
  /\ UNCHANGED copyLocals

\* lines 38-41: the finally clause
ME_Exit ==
  /\ pc = "me_finally"
  /\ env' = ExitEnviron(env, update_after, remove_after)
  /\ result' = IF ExitRaises(env, update_after, remove_after)
                 THEN "KeyError" ELSE result
  /\ pc' = "me_done"
  /\ UNCHANGED <<cwd, dirs, env_at_call, cwd_at_call>>
  /\ UNCHANGED envLocals
  /\ UNCHANGED dirLocals
  /\ UNCHANGED initLocals
  /\ UNCHANGED copyLocals

NextEnv == ME_Enter \/ ME_BodyDelete \/ ME_BodySet \/ ME_BodyEnd \/ ME_Exit

SpecEnv == InitEnv /\ [][NextEnv]_vars

----------------------------------------------------------------------------
(* C1: entering modified_environ(remove, update) and leaving it, the        *)
(* body returning or raising without touching os.environ, leaves           *)
(* os.environ equal to what it was at the call.                            *)
EnvRestoredOnExit ==
  (pc = "me_done" /\ body_ops = 0) => env = env_at_call

\* a block that overwrote one name, removed another and is left by an error
EnvRestoredWitness ==
  /\ pc = "me_done"
  /\ body_ops = 0
  /\ result = "raised"
  /\ env_in_scope # env_at_call
  /\ \E k \in DOMAIN update : k \in DOMAIN env_at_call /\ update[k] # env_at_call[k]
  /\ \E k \in Range(remove) : k \in DOMAIN env_at_call
  /\ \E k \in DOMAIN update : k \notin DOMAIN env_at_call

(* C13: inside a modified_environ(remove, update) block os.environ is the  *)
(* environment of the call overlaid with update, without the names of       *)
(* remove: a name in both is absent.                                        *)
EnvInScopeIsOverlay ==
  pc \in {"me_body", "me_finally", "me_done"} =>
    env_in_scope =
      [k \in (DOMAIN env_at_call \cup DOMAIN update) \ Range(remove) |->
         IF k \in DOMAIN update THEN update[k] ELSE env_at_call[k]]

\* a name both updated and removed, beside a name only updated
EnvInScopeWitness ==
  /\ pc = "me_body"
  /\ body_ops = 0
  /\ \E k \in DOMAIN update : k \in Range(remove)
  /\ \E k \in DOMAIN update : k \notin Range(remove) /\ env[k] = update[k]

(* C17: leaving a modified_environ block never raises for a missing name:  *)
(* when the body deleted a name the block introduced, or one it overwrote   *)
(* or removed, the finally clause completes, every introduced name is       *)
(* absent and every overwritten or removed name has its value of before.    *)
ExitToleratesMissingKeys ==
  pc = "me_done" =>
    /\ result \in {"returned", "raised"}
    /\ \A k \in remove_after : k \notin DOMAIN env
    /\ \A k \in DOMAIN update_after : k \in DOMAIN env /\ env[k] = env_at_call[k]

\* the body deleted a name the block had introduced, and the block was left
ExitMissingKeyWitness ==
  /\ pc = "me_done"
  /\ \E k \in body_deleted : k \in remove_after
  /\ \E k \in DOMAIN update_after : env[k] = env_at_call[k]

----------------------------------------------------------------------------
(* SpecDir: with ChangeDirectory(new_path): body *)

\* ChangeDirectory(new_path), lines 67-74: previous_path is the directory at
\* construction
InitDir ==
  /\ pc = "cd_call"
  /\ dirs \in SUBSET AllDirs
  /\ cwd \in dirs
  /\ cwd_at_call = cwd
  /\ new_path \in AllDirs
  /\ previous_path = cwd
  /\ cwd_in_scope = cwd
  /\ body_ran = FALSE
  /\ exit_ran = FALSE
  /\ InitLocalsUnused
  /\ result = "none"
  /\ env = EmptyDict
  /\ env_at_call = EmptyDict
  /\ update = EmptyDict
  /\ remove = <<>>
  /\ update_after = EmptyDict
  /\ remove_after = {}
  /\ env_in_scope = EmptyDict
  /\ body_ops = 0
  /\ body_deleted = {}
  /\ CopyLocalsUnused

\* __enter__, lines 76-80, the target can be entered
CD_EnterOk ==
  /\ pc = "cd_call"
  /\ CanChdir(new_path)
  /\ previous_path' = cwd
  /\ cwd' = new_path
  /\ pc' = "cd_body"
  /\ cwd_in_scope' = cwd'
  /\ body_ran' = TRUE
  /\ UNCHANGED <<env, dirs, result, env_at_call, cwd_at_call, new_path, exit_ran>>
  /\ UNCHANGED envLocals
  /\ UNCHANGED initLocals
  /\ UNCHANGED copyLocals

\* CD_EnterFails, had the failed entry still been followed by __exit__
CD_EnterFailsRunsExit ==
  /\ pc = "cd_call"
  /\ ~CanChdir(new_path)
  /\ previous_path' = cwd
  /\ result' = "OSError"
  /\ pc' = "cd_exit"
  /\ UNCHANGED <<env, cwd, dirs, env_at_call, cwd_at_call, new_path,
                 cwd_in_scope, body_ran, exit_ran>>
  /\ UNCHANGED envLocals
  /\ UNCHANGED initLocals
  /\ UNCHANGED copyLocals

\* __enter__, lines 76-80, os.chdir raises (FileNotFoundError, NotADirectoryError
\* or PermissionError, each an OSError): the with statement neither runs the
\* body nor calls __exit__
CD_EnterFails ==
  /\ pc = "cd_call"
  /\ ~CanChdir(new_path)
  /\ previous_path' = cwd
  /\ result' = "OSError"
  /\ pc' = "cd_done"
  /\ UNCHANGED <<env, cwd, dirs, env_at_call, cwd_at_call, new_path,
                 cwd_in_scope, body_ran, exit_ran>>
  /\ UNCHANGED envLocals
  /\ UNCHANGED initLocals
  /\ UNCHANGED copyLocals

\* the with-body changes directory itself
CD_BodyChdir ==
  /\ pc = "cd_body"
  /\ \E d \in dirs : cwd' = d
  /\ UNCHANGED <<pc, env, dirs, result, env_at_call, cwd_at_call>>
  /\ UNCHANGED envLocals
  /\ UNCHANGED dirLocals
  /\ UNCHANGED initLocals
  /\ UNCHANGED copyLocals

\* the with-body ends, returning or raising: __exit__ is called either way
CD_BodyEnd ==
  /\ pc = "cd_body"
  /\ \E how \in {"returned", "raised"} : result' = how
  /\ pc' = "cd_exit"
  /\ UNCHANGED <<env, cwd, dirs, env_at_call, cwd_at_call>>
  /\ UNCHANGED envLocals
  /\ UNCHANGED dirLocals
  /\ UNCHANGED initLocals
  /\ UNCHANGED copyLocals

\* CD_Exit, had it gone back only when the body returned
CD_ExitOnReturnOnly ==
  /\ pc = "cd_exit"
  /\ exit_ran' = TRUE
  /\ cwd' = IF result = "returned" THEN previous_path ELSE cwd
  /\ pc' = "cd_done"
  /\ UNCHANGED <<env, dirs, result, env_at_call, cwd_at_call, new_path,
                 previous_path, cwd_in_scope, body_ran>>
  /\ UNCHANGED envLocals
  /\ UNCHANGED initLocals
  /\ UNCHANGED copyLocals

\* __exit__, lines 82-84: os.chdir(str(self.previous_path)); it returns None, so
\* an exception of the body propagates
CD_Exit ==
  /\ pc = "cd_exit"
  /\ exit_ran' = TRUE
  /\ IF CanChdir(previous_path)
       THEN cwd' = previous_path /\ result' = result
       ELSE cwd' = cwd /\ result' = "OSError"
  /\ pc' = "cd_done"
  /\ UNCHANGED <<env, dirs, env_at_call, cwd_at_call, new_path, previous_path,
                 cwd_in_scope, body_ran>>
  /\ UNCHANGED envLocals
  /\ UNCHANGED initLocals
  /\ UNCHANGED copyLocals

NextDir == CD_EnterOk \/ CD_EnterFails \/ CD_BodyChdir \/ CD_BodyEnd \/ CD_Exit

SpecDir == InitDir /\ [][NextDir]_vars

----------------------------------------------------------------------------
(* C9: a ChangeDirectory(new_path) block whose target exists runs its body  *)
(* in new_path and ends in the directory it was entered from, whether the   *)
(* body returns or raises.                                                  *)
DirRestoredOnExit ==
  /\ (pc \in {"cd_body", "cd_exit", "cd_done"} /\ new_path \in dirs)
       => (body_ran /\ cwd_in_scope = new_path)
  /\ (pc = "cd_done" /\ new_path \in dirs)
       => (cwd = cwd_at_call /\ exit_ran /\ result \in {"returned", "raised"})

\* the body went elsewhere and raised, and the block still ended where it began
DirRestoredWitness ==
  /\ pc = "cd_done"
  /\ result = "raised"
  /\ new_path \in dirs
  /\ new_path # cwd_at_call
  /\ exit_ran
  /\ cwd = cwd_at_call

(* C10: a ChangeDirectory block whose target does not exist fails on entry  *)
(* with the error of os.chdir, in the directory it was called from, without *)
(* running its body and without running __exit__.                           *)
DirEntryFailureChangesNothing ==
  (pc # "cd_call" /\ new_path \notin dirs)
    => (pc = "cd_done" /\ result = "OSError" /\ cwd = cwd_at_call
        /\ ~body_ran /\ ~exit_ran)

DirEntryFailureWitness ==
  /\ pc = "cd_done"
  /\ new_path \notin dirs
  /\ result = "OSError"
  /\ Cardinality(dirs) > 1

----------------------------------------------------------------------------
(* Spec: the init command, lines 87-117 *)

\* the keyword argument of modified_environ at line 92
SeedUpdate == [UV_VENV_SEED |-> "True"]

\* a step of init: its name, os.environ and the working directory as it
\* started, and how it ended ("ok", "nonzero" for an exit status other than 0,
\* "error" for any other failure)
Call(step, status) == [step |-> step, status |-> status, env |-> env, cwd |-> cwd]

\* what a scaffold that exits non-zero may leave in the project directory
ScaffoldLeftovers == {NoContent, [manifest |-> NoFile, tree |-> Tree(PackageTree)]}

InitCmd ==
  /\ pc = "init_call"
  /\ env \in Environs
  /\ env_at_call = env
  /\ cwd \in {<<"home">>, <<"tmp">>}
  /\ cwd_at_call = cwd
  /\ dirs \in {{cwd}, {cwd, Join(cwd, ProjectName)}}
  /\ result = "none"
  /\ update = EmptyDict
  /\ remove = <<>>
  /\ update_after = EmptyDict
  /\ remove_after = {}
  /\ env_in_scope = EmptyDict
  /\ body_ops = 0
  /\ body_deleted = {}
  /\ CopyLocalsUnused
  /\ new_path = cwd
  /\ previous_path = cwd
  /\ cwd_in_scope = cwd
  /\ body_ran = FALSE
  /\ exit_ran = FALSE
  /\ InitLocalsUnused

\* line 92: with modified_environ(UV_VENV_SEED="True"), up to the yield
Init_EnterEnviron ==
  /\ pc = "init_call"
  /\ update' = SeedUpdate
  /\ remove' = <<>>
  /\ update_after' = UpdateAfter(env, update', remove')
  /\ remove_after' = RemoveAfter(env, update')
  /\ env' = EnterEnviron(env, update', remove')
  /\ env_in_scope' = env'
  /\ pc' = "scaffold"
  /\ UNCHANGED <<cwd, dirs, result, env_at_call, cwd_at_call, body_ops, body_deleted>>
  /\ UNCHANGED dirLocals
  /\ UNCHANGED initLocals
  /\ UNCHANGED copyLocals

\* line 93: uv init exits 0; the project directory holds what the tool wrote
\* beside what was there, and can be entered unless the tool left it otherwise
Init_ScaffoldOk ==
  /\ pc = "scaffold"
  /\ calls' = Append(calls, Call("uv init", "ok"))
  /\ \E t \in ScaffoldTrees, m \in ScaffoldManifests, made \in BOOLEAN :
       LET content == [manifest |-> m, tree |-> t]
           proj == Join(cwd, ProjectName)
       IN /\ disk' = [disk EXCEPT ![proj] = content]
          /\ scaffolded' = content
          /\ dirs' = IF made THEN dirs \cup {proj} ELSE dirs
  /\ pending' = "none"
  /\ pc' = "env_finally"
  /\ UNCHANGED <<env, cwd, result, env_at_call, cwd_at_call, pyproject, loaded,
                 printed>>
  /\ UNCHANGED envLocals
  /\ UNCHANGED dirLocals
  /\ UNCHANGED copyLocals

\* line 93: uv init exits non-zero and check=True raises CalledProcessError
Init_ScaffoldNonZero ==
  /\ pc = "scaffold"
  /\ calls' = Append(calls, Call("uv init", "nonzero"))
  /\ \E left \in ScaffoldLeftovers, made \in BOOLEAN :
       LET proj == Join(cwd, ProjectName)
       IN /\ disk' = [disk EXCEPT ![proj] = left]
          /\ scaffolded' = left
          /\ dirs' = IF made THEN dirs \cup {proj} ELSE dirs
  /\ pending' = "CalledProcessError"
  /\ pc' = "env_finally"
  /\ UNCHANGED <<env, cwd, result, env_at_call, cwd_at_call, pyproject, loaded,
                 printed>>
  /\ UNCHANGED envLocals
  /\ UNCHANGED dirLocals
  /\ UNCHANGED copyLocals

\* line 93: the tool cannot be started and subprocess.run raises an OSError
Init_ScaffoldCannotRun ==
  /\ pc = "scaffold"
  /\ calls' = Append(calls, Call("uv init", "error"))
  /\ pending' = "OSError"
  /\ pc' = "env_finally"
  /\ UNCHANGED <<env, cwd, dirs, result, env_at_call, cwd_at_call, disk,
                 pyproject, loaded, scaffolded, printed>>
  /\ UNCHANGED envLocals
  /\ UNCHANGED dirLocals
  /\ UNCHANGED copyLocals

\* Init_ExitEnviron, had the except clause of line 94 passed instead of raising
Init_ExitEnvironSwallows ==
  /\ pc = "env_finally"
  /\ env' = ExitEnviron(env, update_after, remove_after)
  /\ IF pending \in {"none", "CalledProcessError"}
       THEN pc' = "chdir" /\ result' = result
       ELSE pc' = "done" /\ result' = pending
  /\ pending' = "none"
  /\ UNCHANGED <<cwd, dirs, env_at_call, cwd_at_call, disk, pyproject, loaded,
                 scaffolded, printed, calls>>
  /\ UNCHANGED envLocals
  /\ UNCHANGED dirLocals
  /\ UNCHANGED copyLocals

\* lines 38-41, then lines 94-95: the finally clause of modified_environ; a
\* CalledProcessError is caught and typer.Exit(code=1) raised, any other
\* exception leaves init
Init_ExitEnviron ==
  /\ pc = "env_finally"
  /\ env' = ExitEnviron(env, update_after, remove_after)
  /\ CASE pending = "none" ->
            pc' = "chdir" /\ result' = result
       [] pending = "CalledProcessError" ->
            pc' = "done" /\ result' = "Exit(1)"
       [] OTHER ->
            pc' = "done" /\ result' = pending
  /\ pending' = "none"
  /\ UNCHANGED <<cwd, dirs, env_at_call, cwd_at_call, disk, pyproject, loaded,
                 scaffolded, printed, calls>>
  /\ UNCHANGED envLocals
  /\ UNCHANGED dirLocals
  /\ UNCHANGED copyLocals

\* line 97: ChangeDirectory(pathlib.Path.cwd() / name) and its __enter__,
\* lines 73-74 and 78-80
Init_ChangeDirectoryOk ==
  /\ pc = "chdir"
  /\ calls' = Append(calls, Call("chdir", "ok"))
  /\ new_path' = Join(cwd, ProjectName)
  /\ CanChdir(new_path')
  /\ previous_path' = cwd
  /\ cwd' = new_path'
  /\ cwd_in_scope' = cwd'
  /\ body_ran' = TRUE
  /\ pc' = "copy"
  /\ UNCHANGED <<env, dirs, result, env_at_call, cwd_at_call, exit_ran, disk,
                 pyproject, loaded, scaffolded, pending, printed>>
  /\ UNCHANGED envLocals
  /\ UNCHANGED copyLocals

\* line 97: os.chdir raises in __enter__; the exception leaves init
Init_ChangeDirectoryFails ==
  /\ pc = "chdir"
  /\ calls' = Append(calls, Call("chdir", "error"))
  /\ new_path' = Join(cwd, ProjectName)
  /\ ~CanChdir(new_path')
  /\ previous_path' = cwd
  /\ result' = "OSError"
  /\ pc' = "done"
  /\ UNCHANGED <<env, cwd, dirs, env_at_call, cwd_at_call, cwd_in_scope, body_ran,
                 exit_ran, disk, pyproject, loaded, scaffolded, pending, printed>>
  /\ UNCHANGED envLocals
  /\ UNCHANGED copyLocals

\* Init_CopyTemplates, had the error of copytree been ignored
Init_CopyTemplatesIgnoresErrors ==
  /\ pc = "copy"
  /\ calls' = Append(calls, Call("copy", IF CopyErrors(disk[cwd].tree) = {}
                                            THEN "ok" ELSE "error"))
  /\ disk' = [disk EXCEPT ![cwd].tree = CopyTree(@)]
  /\ pc' = "add"
  /\ UNCHANGED <<env, cwd, dirs, result, env_at_call, cwd_at_call, pyproject,
                 loaded, scaffolded, pending, printed>>
  /\ UNCHANGED envLocals
  /\ UNCHANGED dirLocals
  /\ UNCHANGED copyLocals

\* line 98: copy_template_files(pathlib.Path.cwd()), lines 57-62; mkdir with
\* exist_ok on the working directory does nothing
Init_CopyTemplates ==
  /\ pc = "copy"
  /\ calls' = Append(calls, Call("copy", IF CopyErrors(disk[cwd].tree) = {}
                                            THEN "ok" ELSE "error"))
  /\ disk' = [disk EXCEPT ![cwd].tree = CopyTree(@)]
  /\ IF CopyErrors(disk[cwd].tree) = {}
       THEN pc' = "add" /\ pending' = pending
       ELSE pc' = "cd_exit" /\ pending' = "shutil.Error"
  /\ UNCHANGED <<env, cwd, dirs, result, env_at_call, cwd_at_call, pyproject,
                 loaded, scaffolded, printed>>
  /\ UNCHANGED envLocals
  /\ UNCHANGED dirLocals
  /\ UNCHANGED copyLocals

\* line 103: uv add prefect --no-active exits 0
Init_AddPrimaryOk ==
  /\ pc = "add"
  /\ calls' = Append(calls, Call("uv add", "ok"))
  /\ disk' = [disk EXCEPT ![cwd].manifest = AddDependency(@)]
  /\ pc' = "load"
  /\ UNCHANGED <<env, cwd, dirs, result, env_at_call, cwd_at_call, pyproject,
                 loaded, scaffolded, pending, printed>>
  /\ UNCHANGED envLocals
  /\ UNCHANGED dirLocals
  /\ UNCHANGED copyLocals

\* Init_AddPrimaryNonZero, had nothing caught the CalledProcessError
Init_AddPrimaryNonZeroUncaught ==
  /\ pc = "add"
  /\ calls' = Append(calls, Call("uv add", "nonzero"))
  /\ pending' = "CalledProcessError"
  /\ pc' = "cd_exit"
  /\ UNCHANGED <<env, cwd, dirs, result, env_at_call, cwd_at_call, disk,
                 pyproject, loaded, scaffolded, printed>>
  /\ UNCHANGED envLocals
  /\ UNCHANGED dirLocals
  /\ UNCHANGED copyLocals

\* lines 103-104: it exits non-zero; the CalledProcessError is caught
Init_AddPrimaryNonZero ==
  /\ pc = "add"
  /\ calls' = Append(calls, Call("uv add", "nonzero"))
  /\ pc' = "add_offline"
  /\ UNCHANGED <<env, cwd, dirs, result, env_at_call, cwd_at_call, disk,
                 pyproject, loaded, scaffolded, pending, printed>>
  /\ UNCHANGED envLocals
  /\ UNCHANGED dirLocals
  /\ UNCHANGED copyLocals

\* Init_AddOfflineOk, had the manifest patch been part of the try block of
\* line 102, which the fallback leaves
Init_AddOfflineOkSkipsPatch ==
  /\ pc = "add_offline"
  /\ calls' = Append(calls, Call("uv add --offline", "ok"))
  /\ disk' = [disk EXCEPT ![cwd].manifest = AddDependency(@)]
  /\ pc' = "print"
  /\ UNCHANGED <<env, cwd, dirs, result, env_at_call, cwd_at_call, pyproject,
                 loaded, scaffolded, pending, printed>>
  /\ UNCHANGED envLocals
  /\ UNCHANGED dirLocals
  /\ UNCHANGED copyLocals

\* line 105: uv add prefect --offline --no-cache --frozen exits 0
Init_AddOfflineOk ==
  /\ pc = "add_offline"
  /\ calls' = Append(calls, Call("uv add --offline", "ok"))
  /\ disk' = [disk EXCEPT ![cwd].manifest = AddDependency(@)]
  /\ pc' = "load"
  /\ UNCHANGED <<env, cwd, dirs, result, env_at_call, cwd_at_call, pyproject,
                 loaded, scaffolded, pending, printed>>
  /\ UNCHANGED envLocals
  /\ UNCHANGED dirLocals
  /\ UNCHANGED copyLocals

\* Init_AddOfflineNonZero, had line 105 run without check=True
Init_AddOfflineNonZeroSwallowed ==
  /\ pc = "add_offline"
  /\ calls' = Append(calls, Call("uv add --offline", "nonzero"))
  /\ pc' = "load"
  /\ UNCHANGED <<env, cwd, dirs, result, env_at_call, cwd_at_call, disk,
                 pyproject, loaded, scaffolded, pending, printed>>
  /\ UNCHANGED envLocals
  /\ UNCHANGED dirLocals
  /\ UNCHANGED copyLocals

\* line 105: it exits non-zero; nothing catches the CalledProcessError
Init_AddOfflineNonZero ==
  /\ pc = "add_offline"
  /\ calls' = Append(calls, Call("uv add --offline", "nonzero"))
  /\ pending' = "CalledProcessError"
  /\ pc' = "cd_exit"
  /\ UNCHANGED <<env, cwd, dirs, result, env_at_call, cwd_at_call, disk,
                 pyproject, loaded, scaffolded, printed>>
  /\ UNCHANGED envLocals
  /\ UNCHANGED dirLocals
  /\ UNCHANGED copyLocals

\* lines 103 and 105: the tool cannot be started; except CalledProcessError
\* does not catch the OSError
Init_AddCannotRun ==
  /\ pc \in {"add", "add_offline"}
  /\ calls' = Append(calls, Call(IF pc = "add" THEN "uv add" ELSE "uv add --offline", "error"))
  /\ pending' = "OSError"
  /\ pc' = "cd_exit"
  /\ UNCHANGED <<env, cwd, dirs, result, env_at_call, cwd_at_call, disk,
                 pyproject, loaded, scaffolded, printed>>
  /\ UNCHANGED envLocals
  /\ UNCHANGED dirLocals
  /\ UNCHANGED copyLocals

\* lines 108-114: open for reading, toml.load, and the change in memory
Init_ManifestLoadOk ==
  /\ pc = "load"
  /\ disk[cwd].manifest.kind = "toml"
  /\ calls' = Append(calls, Call("load", "ok"))
  /\ loaded' = TomlLoad(disk[cwd].manifest)
  /\ pyproject' = PatchTool(loaded')
  /\ pc' = "open_w"
  /\ UNCHANGED <<env, cwd, dirs, result, env_at_call, cwd_at_call, disk,
                 scaffolded, pending, printed>>
  /\ UNCHANGED envLocals
  /\ UNCHANGED dirLocals
  /\ UNCHANGED copyLocals

\* Init_ManifestLoadFails, had the file been opened for writing before it
\* was read
Init_ManifestLoadFailsTruncated ==
  /\ pc = "load"
  /\ disk[cwd].manifest.kind # "toml"
  /\ calls' = Append(calls, Call("load", "error"))
  /\ disk' = [disk EXCEPT ![cwd].manifest = TruncatedFile]
  /\ pending' = IF disk[cwd].manifest.kind = "absent"
                  THEN "OSError" ELSE "TomlDecodeError"
  /\ pc' = "cd_exit"
  /\ UNCHANGED <<env, cwd, dirs, result, env_at_call, cwd_at_call,
                 pyproject, loaded, scaffolded, printed>>
  /\ UNCHANGED envLocals
  /\ UNCHANGED dirLocals
  /\ UNCHANGED copyLocals

\* lines 108-109: open raises an OSError on a missing file, toml.load a
\* TomlDecodeError on a file that is not TOML
Init_ManifestLoadFails ==
  /\ pc = "load"
  /\ disk[cwd].manifest.kind # "toml"
  /\ calls' = Append(calls, Call("load", "error"))
  /\ pending' = IF disk[cwd].manifest.kind = "absent"
                  THEN "OSError" ELSE "TomlDecodeError"
  /\ pc' = "cd_exit"
  /\ UNCHANGED <<env, cwd, dirs, result, env_at_call, cwd_at_call, disk,
                 pyproject, loaded, scaffolded, printed>>
  /\ UNCHANGED envLocals
  /\ UNCHANGED dirLocals
  /\ UNCHANGED copyLocals

\* line 115: open("pyproject.toml", "w") truncates the file
Init_ManifestOpenWriteOk ==
  /\ pc = "open_w"
  /\ calls' = Append(calls, Call("open w", "ok"))
  /\ disk' = [disk EXCEPT ![cwd].manifest = TruncatedFile]
  /\ pc' = "dump"
  /\ UNCHANGED <<env, cwd, dirs, result, env_at_call, cwd_at_call, pyproject,
                 loaded, scaffolded, pending, printed>>
  /\ UNCHANGED envLocals
  /\ UNCHANGED dirLocals
  /\ UNCHANGED copyLocals

\* line 115: the file cannot be opened for writing
Init_ManifestOpenWriteFails ==
  /\ pc = "open_w"
  /\ calls' = Append(calls, Call("open w", "error"))
  /\ pending' = "OSError"
  /\ pc' = "cd_exit"
  /\ UNCHANGED <<env, cwd, dirs, result, env_at_call, cwd_at_call, disk,
                 pyproject, loaded, scaffolded, printed>>
  /\ UNCHANGED envLocals
  /\ UNCHANGED dirLocals
  /\ UNCHANGED copyLocals

\* line 116: toml.dump(pyproject, f)
Init_ManifestDumpOk ==
  /\ pc = "dump"
  /\ calls' = Append(calls, Call("dump", "ok"))
  /\ disk' = [disk EXCEPT ![cwd].manifest = TomlDump(pyproject)]
  /\ pc' = "print"
  /\ UNCHANGED <<env, cwd, dirs, result, env_at_call, cwd_at_call, pyproject,
                 loaded, scaffolded, pending, printed>>
  /\ UNCHANGED envLocals
  /\ UNCHANGED dirLocals
  /\ UNCHANGED copyLocals

\* line 116: the write fails; the file stays as open left it
Init_ManifestDumpFails ==
  /\ pc = "dump"
  /\ calls' = Append(calls, Call("dump", "error"))
  /\ pending' = "OSError"
  /\ pc' = "cd_exit"
  /\ UNCHANGED <<env, cwd, dirs, result, env_at_call, cwd_at_call, disk,
                 pyproject, loaded, scaffolded, printed>>
  /\ UNCHANGED envLocals
  /\ UNCHANGED dirLocals
  /\ UNCHANGED copyLocals

\* line 117: console.print of the success line
Init_Print ==
  /\ pc = "print"
  /\ calls' = Append(calls, Call("print", "ok"))
  /\ printed' = TRUE
  /\ pc' = "cd_exit"
  /\ UNCHANGED <<env, cwd, dirs, result, env_at_call, cwd_at_call, disk,
                 pyproject, loaded, scaffolded, pending>>
  /\ UNCHANGED envLocals
  /\ UNCHANGED dirLocals
  /\ UNCHANGED copyLocals

\* Init_ExitDirectory, had the directory been restored after the block instead
\* of in __exit__: an exception in flight skips it
Init_ExitDirectoryOnSuccessOnly ==
  /\ pc = "cd_exit"
  /\ exit_ran' = TRUE
  /\ cwd' = IF pending = "none" THEN previous_path ELSE cwd
  /\ result' = IF pending = "none" THEN "success" ELSE pending
  /\ pending' = "none"
  /\ pc' = "done"
  /\ UNCHANGED <<env, dirs, env_at_call, cwd_at_call, new_path, previous_path,
                 cwd_in_scope, body_ran, disk, pyproject, loaded, scaffolded,
                 printed, calls>>
  /\ UNCHANGED envLocals
  /\ UNCHANGED copyLocals

\* ChangeDirectory.__exit__, lines 82-84, on leaving the with block of line
\* 97; an exception in flight goes on to the caller of init
Init_ExitDirectory ==
  /\ pc = "cd_exit"
  /\ exit_ran' = TRUE
  /\ IF CanChdir(previous_path)
       THEN /\ cwd' = previous_path
            /\ result' = IF pending = "none" THEN "success" ELSE pending
       ELSE /\ cwd' = cwd
            /\ result' = "OSError"
  /\ pending' = "none"
  /\ pc' = "done"
  /\ UNCHANGED <<env, dirs, env_at_call, cwd_at_call, new_path, previous_path,
                 cwd_in_scope, body_ran, disk, pyproject, loaded, scaffolded,
                 printed, calls>>
  /\ UNCHANGED envLocals
  /\ UNCHANGED copyLocals

\* the exit status of the process: typer.Exit(1) and an uncaught exception
\* both end it with 1
ExitCode == IF result = "success" THEN 0 ELSE 1

Next ==
  \/ Init_EnterEnviron
  \/ Init_ScaffoldOk
  \/ Init_ScaffoldNonZero
  \/ Init_ScaffoldCannotRun
  \/ Init_ExitEnviron
  \/ Init_ChangeDirectoryOk
  \/ Init_ChangeDirectoryFails
  \/ Init_CopyTemplates
  \/ Init_AddPrimaryOk
  \/ Init_AddPrimaryNonZero
  \/ Init_AddOfflineOk
  \/ Init_AddOfflineNonZero
  \/ Init_AddCannotRun
  \/ Init_ManifestLoadOk
  \/ Init_ManifestLoadFails
  \/ Init_ManifestOpenWriteOk
  \/ Init_ManifestOpenWriteFails
  \/ Init_ManifestDumpOk
  \/ Init_ManifestDumpFails
  \/ Init_Print
  \/ Init_ExitDirectory

Spec == InitCmd /\ [][Next]_vars

----------------------------------------------------------------------------
(* SpecCopy: copy_template_files(destination), with the default source *)

\* the trees a directory may hold: what lies under a path that is not a
\* directory is absent
ConsistentTrees ==
  {t \in [TreePaths -> {"absent", "dir", "other"}] :
     \A p \in TreePaths :
        t[p] # "absent" => \A a \in ProperPrefixes(p) : t[a] = "dir"}

\* pathlib.Path.mkdir(parents=True): the directory with those above it
WithParents(p) == {p} \cup ProperPrefixes(p)

\* the call: the destination is absent, is a file, or is a directory that
\* holds any tree
InitCopy ==
  /\ pc = "copy_call"
  /\ destination \in AllDirs
  /\ dest_before \in
       {[kind |-> k, tree |-> EmptyTree] : k \in {"absent", "file"}}
         \cup {[kind |-> "dir", tree |-> t] : t \in ConsistentTrees}
  /\ dirs \in {D \in SUBSET AllDirs :
                 /\ \A d \in D : WithParents(d) \subseteq D
                 /\ destination \in D <=> dest_before.kind = "dir"
                 /\ dest_before.kind = "file" =>
                      ProperPrefixes(destination) \subseteq D}
  /\ disk = [d \in AllDirs |->
               IF d = destination
                 THEN [manifest |-> NoFile, tree |-> dest_before.tree]
                 ELSE NoContent]
  /\ result = "none"
  /\ cwd = <<"home">>
  /\ cwd_at_call = <<"home">>
  /\ env = EmptyDict
  /\ env_at_call = EmptyDict
  /\ update = EmptyDict
  /\ remove = <<>>
  /\ update_after = EmptyDict
  /\ remove_after = {}
  /\ env_in_scope = EmptyDict
  /\ body_ops = 0
  /\ body_deleted = {}
  /\ new_path = <<"home">>
  /\ previous_path = <<"home">>
  /\ cwd_in_scope = <<"home">>
  /\ body_ran = FALSE
  /\ exit_ran = FALSE
  /\ pyproject = EmptyDict
  /\ loaded = EmptyDict
  /\ scaffolded = NoContent
  /\ pending = "none"
  /\ printed = FALSE
  /\ calls = <<>>

\* line 57: destination.mkdir(exist_ok=True, parents=True)
Copy_MkdirOk ==
  /\ pc = "copy_call"
  /\ dest_before.kind # "file"
  /\ dirs' = dirs \cup WithParents(destination)
  /\ pc' = "copy_tree"
  /\ UNCHANGED <<env, cwd, result, env_at_call, cwd_at_call, disk, pyproject,
                 loaded, scaffolded, pending, printed, calls>>
  /\ UNCHANGED envLocals
  /\ UNCHANGED dirLocals
  /\ UNCHANGED copyLocals

\* line 57: the destination is a file, exist_ok does not cover that
Copy_MkdirFails ==
  /\ pc = "copy_call"
  /\ dest_before.kind = "file"
  /\ result' = "FileExistsError"
  /\ pc' = "copy_done"
  /\ UNCHANGED <<env, cwd, dirs, env_at_call, cwd_at_call, disk, pyproject,
                 loaded, scaffolded, pending, printed, calls>>
  /\ UNCHANGED envLocals
  /\ UNCHANGED dirLocals
  /\ UNCHANGED copyLocals

\* lines 58-62: shutil.copytree(source, destination, dirs_exist_ok=True)
Copy_Tree ==
  /\ pc = "copy_tree"
  /\ disk' = [disk EXCEPT ![destination].tree = CopyTree(@)]
  /\ result' = IF CopyErrors(disk[destination].tree) = {}
                 THEN "returned" ELSE "shutil.Error"
  /\ pc' = "copy_done"
  /\ UNCHANGED <<env, cwd, dirs, env_at_call, cwd_at_call, pyproject,
                 loaded, scaffolded, pending, printed, calls>>
  /\ UNCHANGED envLocals
  /\ UNCHANGED dirLocals
  /\ UNCHANGED copyLocals

NextCopy == Copy_MkdirOk \/ Copy_MkdirFails \/ Copy_Tree

SpecCopy == InitCopy /\ [][NextCopy]_vars

\* a tree that holds nothing but directories of the template, empty
OnlyEmptyTemplateDirs(t) ==
  \A p \in TreePaths : t[p] = "absent" \/ (p \in TemplateDirs /\ t[p] = "dir")

(* C16: copy_template_files into a destination that is an empty directory, *)
(* or holds only directories of the template with nothing in them, returns *)
(* and leaves the files and contents that a copy into a destination that   *)
(* did not exist leaves: the template's directories and the template's     *)
(* files, nothing else.                                                     *)
CopyIntoEmptyDirsSameAsFresh ==
  (/\ pc = "copy_done"
   /\ dest_before.kind \in {"absent", "dir"}
   /\ OnlyEmptyTemplateDirs(dest_before.tree)) =>
    /\ result = "returned"
    /\ destination \in dirs
    /\ disk[destination].tree = CopyTree(EmptyTree)
    /\ \A p \in TreePaths :
         disk[destination].tree[p] =
           IF p \in TemplateDirs THEN "dir"
           ELSE IF p \in TemplateFiles THEN "template" ELSE "absent"

\* the destination was there with the template's directories, empty, and
\* the copy has returned
CopyIntoEmptyDirsWitness ==
  /\ pc = "copy_done"
  /\ dest_before.kind = "dir"
  /\ OnlyEmptyTemplateDirs(dest_before.tree)
  /\ \A p \in TemplateDirs : dest_before.tree[p] = "dir"
  /\ result = "returned"
  /\ \A p \in TemplateFiles : disk[destination].tree[p] = "template"

----------------------------------------------------------------------------
(* Claims about init *)

\* the project directory of this run
ProjectDir == Join(cwd_at_call, ProjectName)

\* the steps of the log with a name, and those with a name and a status
Steps(step) == {i \in DOMAIN calls : calls[i].step = step}
Ended(step, status) ==
  {i \in DOMAIN calls : calls[i].step = step /\ calls[i].status = status}

StepNames ==
  {"uv init", "chdir", "copy", "uv add", "uv add --offline", "load", "open w",
   "dump", "print"}

(* C2: after the manifest patch every top-level table of the manifest other *)
(* than tool, and every table of tool other than tool.prefect, is in the    *)
(* rewritten file with the value toml.load read.                            *)
ManifestOtherContentPreserved ==
  (pc = "done" /\ result = "success") =>
    LET after == disk[ProjectDir].manifest.doc
    IN /\ \A k \in DOMAIN loaded \ {"tool"} :
            k \in DOMAIN after /\ after[k] = loaded[k]
       /\ "tool" \in DOMAIN loaded =>
            \A t \in DOMAIN loaded["tool"] \ {"prefect"} :
               /\ "tool" \in DOMAIN after
               /\ t \in DOMAIN after["tool"]
               /\ after["tool"][t] = loaded["tool"][t]

(* C3: after a successful init the manifest's tool.prefect table is exactly *)
(* home and profiles_path with their fixed values, whatever tool.prefect    *)
(* held before.                                                             *)
ToolPrefectFullyReplaced ==
  (pc = "done" /\ result = "success") =>
    LET after == disk[ProjectDir].manifest
    IN /\ after.kind = "toml"
       /\ "tool" \in DOMAIN after.doc
       /\ "prefect" \in DOMAIN after.doc["tool"]
       /\ after.doc["tool"]["prefect"] = PrefectSettings

\* a successful run on a manifest whose tool.prefect had another key
ToolPrefectReplacedWitness ==
  /\ pc = "done"
  /\ result = "success"
  /\ "tool" \in DOMAIN loaded
  /\ "prefect" \in DOMAIN loaded["tool"]
  /\ loaded["tool"]["prefect"] = StalePrefect

(* C4: whenever init has ended, the working directory is the one it was     *)
(* called in.                                                               *)
CwdRestoredAtTermination == pc = "done" => cwd = cwd_at_call

\* init ended by the failure of both dependency-add calls, made in the
\* project directory
CwdRestoredWitness ==
  /\ pc = "done"
  /\ result = "CalledProcessError"
  /\ body_ran
  /\ cwd_in_scope = ProjectDir
  /\ Ended("uv add --offline", "nonzero") # {}
  /\ calls[Len(calls)].cwd # cwd_at_call

(* C5: the offline dependency-add runs once when the primary one exited     *)
(* non-zero and never when it exited 0; no step of init runs twice, so      *)
(* there are at most two dependency-add calls.                              *)
AddRetriedOnceOnly ==
  /\ \A step \in StepNames : Cardinality(Steps(step)) <= 1
  /\ Ended("uv add", "ok") # {} => Steps("uv add --offline") = {}
  /\ (Ended("uv add", "nonzero") # {} /\ pc # "add_offline")
       => Cardinality(Steps("uv add --offline")) = 1
  /\ Steps("uv add --offline") # {} => Ended("uv add", "nonzero") # {}

\* the primary call failed, the offline call ran and init went on to the end
AddRetriedWitness ==
  /\ pc = "done"
  /\ Ended("uv add", "nonzero") # {}
  /\ Cardinality(Steps("uv add --offline")) = 1
  /\ result = "success"

(* C6: when both dependency-add calls exit non-zero, init ends with the     *)
(* CalledProcessError and exit status 1, the manifest is neither read nor   *)
(* written and the success line is not printed.                             *)
BothAddsFailedIsFatal ==
  Ended("uv add --offline", "nonzero") # {} =>
    /\ Steps("load") = {} /\ Steps("open w") = {} /\ Steps("dump") = {}
    /\ disk[ProjectDir].manifest = scaffolded.manifest
    /\ ~printed
    /\ pc \in {"cd_exit", "done"}
    /\ pc = "cd_exit" => pending = "CalledProcessError"
    /\ pc = "done" => (result = "CalledProcessError" /\ ExitCode = 1)

BothAddsFailedWitness ==
  /\ pc = "done"
  /\ Ended("uv add", "nonzero") # {}
  /\ Ended("uv add --offline", "nonzero") # {}
  /\ scaffolded.manifest.kind = "toml"

(* C7: when uv init exits non-zero, init ends with typer.Exit(1), exit      *)
(* status 1, and no later step runs: the working directory never changes,   *)
(* nothing is copied, no dependency is added, the manifest is neither read  *)
(* nor written; os.environ is as it was at the call.                        *)
ScaffoldFailureAborts ==
  Ended("uv init", "nonzero") # {} =>
    /\ Len(calls) = 1
    /\ cwd = cwd_at_call
    /\ ~body_ran
    /\ disk = [d \in AllDirs |-> IF d = ProjectDir THEN scaffolded ELSE NoContent]
    /\ ~printed
    /\ pc \in {"env_finally", "done"}
    /\ pc = "done" => (result = "Exit(1)" /\ ExitCode = 1 /\ env = env_at_call)

\* the failed scaffold ran under the override, left a directory behind, and
\* init has ended
ScaffoldFailureWitness ==
  /\ pc = "done"
  /\ Ended("uv init", "nonzero") # {}
  /\ calls[1].env # env_at_call
  /\ ProjectDir \in dirs
  /\ scaffolded # NoContent

\* what a successful init leaves in the project directory, from what the
\* scaffold left there
FinalContent(c) ==
  [manifest |-> TomlDump(PatchTool(TomlLoad(AddDependency(c.manifest)))),
   tree |-> CopyTree(c.tree)]

SeedOnlyDuringScaffold ==
  /\ \A i \in DOMAIN calls :
       IF calls[i].step = "uv init"
         THEN calls[i].env = DictSet(env_at_call, "UV_VENV_SEED", "True")
         ELSE calls[i].env = env_at_call
  /\ pc \notin {"init_call", "scaffold", "env_finally"} => env = env_at_call

\* a whole run from an environment without the flag; uv init saw it, the
\* later steps did not
SeedScopedWitness ==
  /\ pc = "done"
  /\ result = "success"
  /\ "UV_VENV_SEED" \notin DOMAIN env_at_call
  /\ "UV_VENV_SEED" \in DOMAIN calls[1].env
  /\ Steps("uv add --offline") # {}

\* the place of a step in the order of lines 93-117
StepRank(step) ==
  CASE step = "uv init" -> 1
    [] step = "chdir" -> 2
    [] step = "copy" -> 3
    [] step = "uv add" -> 4
    [] step = "uv add --offline" -> 5
    [] step = "load" -> 6
    [] step = "open w" -> 7
    [] step = "dump" -> 8
    [] step = "print" -> 9

(* C14: the steps of init run in the order scaffold, enter the project      *)
(* directory, copy templates, add the dependency, patch the manifest; a     *)
(* step starts only when the one before it succeeded, the manifest patch    *)
(* only when the primary or the offline dependency-add succeeded; the       *)
(* success line is printed only when all of them succeeded.                 *)
StepsInOrderAndGated ==
  /\ calls # <<>> => calls[1].step = "uv init"
  /\ \A i \in DOMAIN calls : i < Len(calls) =>
       /\ StepRank(calls[i].step) < StepRank(calls[i + 1].step)
       /\ \/ /\ calls[i].status = "ok"
             /\ StepRank(calls[i + 1].step) =
                  IF calls[i].step = "uv add" THEN 6 ELSE StepRank(calls[i].step) + 1
          \/ /\ calls[i].step = "uv add"
             /\ calls[i].status = "nonzero"
             /\ calls[i + 1].step = "uv add --offline"
  /\ printed =>
       /\ Ended("uv init", "ok") # {} /\ Ended("chdir", "ok") # {}
       /\ Ended("copy", "ok") # {}
       /\ Ended("uv add", "ok") # {} \/ Ended("uv add --offline", "ok") # {}
       /\ Ended("load", "ok") # {} /\ Ended("open w", "ok") # {}
       /\ Ended("dump", "ok") # {}
  /\ result = "success" => printed

\* the longest run: every step, the offline dependency-add included
StepsInOrderWitness ==
  /\ pc = "done"
  /\ printed
  /\ Len(calls) = 9

\* the paths of the template tree
TemplatePaths == TemplateDirs \cup TemplateFiles

ManifestUntouchedOnReadFailure ==
  /\ Ended("load", "error") # {} =>
       /\ disk[ProjectDir].manifest = AddDependency(scaffolded.manifest)
       /\ Steps("open w") = {}
  /\ Steps("open w") # {} =>
       /\ Ended("load", "ok") # {}
       /\ pyproject = PatchTool(loaded)

\* init ended by the parse error of a manifest that is not TOML
ManifestReadFailureWitness ==
  /\ pc = "done"
  /\ result = "TomlDecodeError"
  /\ Ended("load", "error") # {}
  /\ disk[ProjectDir].manifest = GarbageFile

\* the step of the workflow a logged call belongs to
StepGroup(step) ==
  CASE step = "uv init" -> "scaffold"
    [] step = "chdir" -> "enter directory"
    [] step = "copy" -> "copy templates"
    [] step \in {"uv add", "uv add --offline"} -> "install dependency"
    [] step \in {"load", "open w", "dump"} -> "patch manifest"
    [] step = "print" -> "confirm"

\* the step a caller takes an error of init to come from, reading the class
\* of the exception
StepOfError(error) ==
  CASE error = "Exit(1)" -> "scaffold"
    [] error = "OSError" -> "enter directory"
    [] error = "shutil.Error" -> "copy templates"
    [] error = "CalledProcessError" -> "install dependency"
    [] error = "TomlDecodeError" -> "patch manifest"

(* C12: when a step of init fails, the error init ends with identifies the  *)
(* step: scaffold failure, failure to enter the project directory,          *)
(* dependency-install failure and manifest read, parse or write failure     *)
(* each end init with an error of their own.                                *)
ErrorIdentifiesFailedStep ==
  (pc = "done" /\ result # "success") =>
    StepOfError(result) = StepGroup(calls[Len(calls)].step)

(* C15: init rolls nothing back: when a step after the scaffold failed and  *)
(* init has ended, the project directory still holds what the completed     *)
(* steps put there, the scaffold's files, the templates copied and the      *)
(* dependency added to the manifest; os.environ and the working directory   *)
(* are as at the call.                                                      *)
CompletedStepsStayOnDisk ==
  (pc = "done" /\ result # "success" /\ Ended("uv init", "ok") # {}) =>
    /\ env = env_at_call
    /\ cwd = cwd_at_call
    /\ Ended("chdir", "ok") # {} => ProjectDir \in dirs
    /\ \A p \in TreePaths :
         scaffolded.tree[p] = "scaffold" => disk[ProjectDir].tree[p] = "scaffold"
    /\ disk[ProjectDir].tree =
         IF Steps("copy") # {} THEN CopyTree(scaffolded.tree) ELSE scaffolded.tree
    /\ disk[ProjectDir].manifest =
         IF Ended("uv add", "ok") # {} \/ Ended("uv add --offline", "ok") # {}
           THEN AddDependency(scaffolded.manifest)
           ELSE scaffolded.manifest

====
